---- MODULE Spec2Model ----
(***************************************************************************)
(* Model of the sandboxed parallel job executor of raw2jpeg                *)
(* (src/common/executor.py): worker-profile generation, the thread-pool    *)
(* driven execute_jobs with its SIGINT handler, and retry_failed_jobs.     *)
(***************************************************************************)
EXTENDS Integers, Sequences, FiniteSets, TLC

VARIABLES
    cfg,                 \* the Config values read through get_config()
    renderer,            \* behaviour of the external renderer in this run
    quiet,               \* self.quiet
    filesystem,          \* whether directory removal can fail in this run
    all_jobs,            \* the job list handed over by the planner
    cpc,                 \* position of the caller (cli.run / retry_failed_jobs)
    mainpc,              \* position of the main thread inside execute_jobs
    shutdown_requested,  \* executor._shutdown_requested
    jobs,                \* argument of the current execute_jobs call
    profiles,            \* self.profiles
    profile_queue,       \* self.profile_queue (FIFO)
    fut,                 \* state of the future / task_wrapper of each job
    held,                \* profile held by each task (<<>> or <<profile>>)
    fres,                \* outcome of each finished future
    cmd,                 \* command line each task launched the renderer with
    proc,                \* proc.returncode of each task whose renderer exited
    collected,           \* futures already yielded by as_completed
    results,             \* the results dict being accumulated
    files_completed,     \* local files_completed of execute_jobs
    pbar_n,              \* pbar.n, the position of the tqdm progress bar
    progress_callback,   \* whether this execute_jobs call has a progress_callback
    callback_log,        \* the arguments progress_callback was invoked with
    ret,                 \* value returned by the last execute_jobs call
    dirs,                \* worker ids whose sandbox directory exists
    retry_arg,           \* max_retries argument of retry_failed_jobs
    failed_jobs,         \* argument of retry_failed_jobs
    max_retries,         \* local max_retries of retry_failed_jobs
    attempt,             \* loop variable of retry_failed_jobs
    remaining,           \* local remaining of retry_failed_jobs
    all_results,         \* local all_results of retry_failed_jobs
    rounds,              \* execute_jobs calls made by retry_failed_jobs
    retry_launches,      \* renderer launches per input folder during retries
    at_cancel,           \* tasks past the shutdown check at the first SIGINT
    last_user,           \* per worker_id, the task that last acquired the profile
    interrupted,         \* a SIGINT was delivered at some point of the run
    pin,                 \* inputs of a generate_worker_profiles evaluation
    pout                 \* its result

vars == << cfg, renderer, quiet, filesystem, all_jobs, cpc, mainpc, shutdown_requested, jobs,
           profiles, profile_queue, fut, held, fres, cmd, proc, collected, results,
           files_completed, pbar_n, progress_callback, callback_log, ret, dirs,
           retry_arg, failed_jobs, max_retries, attempt, remaining, all_results,
           rounds,
           retry_launches, at_cancel, last_user, interrupted, pin, pout >>

(***************************************************************************)
(* Bounds of the model.                                                    *)
(***************************************************************************)
TotalThreads == 4     \* os.cpu_count() of the modelled host
MaxJobs == 2          \* longest job list handed to execute_jobs
MaxWorkers == 2       \* largest max_workers explored
MaxGpu == 1           \* largest gpu_instances explored by the executor runs
ConfigMaxRetry == 2   \* max_retry of the explored configurations
MaxRetryArg == 1      \* largest max_retries passed to retry_failed_jobs
MaxReserved == 4      \* largest reserved_core_count explored for the generator
MaxWorkerArg == 3     \* largest max_workers explored for the generator
MaxWidth == 2         \* largest thread width explored for the generator
MaxGpuArg == 2        \* largest max_gpu explored for the generator
MinGpuArg == 1        \* the generator is explored from max_gpu = -MinGpuArg
MaxJobCount == 3      \* largest job_count explored for the generator
MaskThreads == 16     \* get_affinity_mask is explored for threads 0..MaskThreads-1
MaxPathLen == 3       \* longest base path, in pieces, given to get_output_template

\* cpu_threads_*_instance of the executor runs: two workers fit on the host
ThreadWidth == TotalThreads \div 2

Max(a, b) == IF a >= b THEN a ELSE b
Min(a, b) == IF a <= b THEN a ELSE b

RECURSIVE Pow2(_)
Pow2(n) == IF n <= 0 THEN 1 ELSE 2 * Pow2(n - 1)

RECURSIVE SumSeq(_)
SumSeq(s) == IF s = << >> THEN 0 ELSE Head(s) + SumSeq(Tail(s))

(***************************************************************************)
(* get_affinity_mask: the integer mask, then hex(mask) without "0x",       *)
(* upper-cased, as a sequence of hex digits.                               *)
(***************************************************************************)
\* variant: range(start_thread, end_thread) instead of end_thread + 1
MaskBits_Exclusive(start_thread, end_thread) ==
    IF start_thread > end_thread THEN 0
    ELSE Pow2(end_thread) - Pow2(start_thread)

RECURSIVE MaskBits(_, _)
MaskBits(start_thread, end_thread) ==
    IF start_thread > end_thread THEN 0
    ELSE Pow2(start_thread) + MaskBits(start_thread + 1, end_thread)

HexDigit(d) ==
    << "0", "1", "2", "3", "4", "5", "6", "7",
       "8", "9", "A", "B", "C", "D", "E", "F" >>[d + 1]

RECURSIVE HexDigits(_)
HexDigits(n) ==
    IF n < 16 THEN << HexDigit(n) >>
    ELSE Append(HexDigits(n \div 16), HexDigit(n % 16))

get_affinity_mask(start_thread, end_thread) ==
    HexDigits(MaskBits(start_thread, end_thread))

(***************************************************************************)
(* generate_worker_profiles.  c holds what the function reads from its     *)
(* environment (the Config and os.cpu_count()), gen is the loop state      *)
(* (profiles, current_end, worker_id, assigned_threads).                   *)
(***************************************************************************)
\* variant: nothing is reserved
MaxAllocatable_NoReserve(c) == c.total_threads

MaxAllocatable(c) == c.total_threads - Max(0, c.reserved_core_count)

EffectiveWorkers(max_workers_, job_count) == Min(max_workers_, job_count)

\* variant: the gpu cap is ignored
GpuCount_Uncapped(effective_workers, max_gpu) == effective_workers

GpuCount(effective_workers, max_gpu) == Min(effective_workers, max_gpu)

\* variant: no cpu profile is requested
CpuCount_None(effective_workers, gpu_count) == 0

CpuCount(effective_workers, gpu_count) == Max(0, effective_workers - gpu_count)

UseGpu(kind) == kind = "gpu"

\* variant: current_end = start instead of start - 1
AssignProfile_OffByOne(c, gen, kind, width) ==
    IF gen.assigned_threads + width > MaxAllocatable(c)
    THEN gen
    ELSE LET start0 == Max(0, gen.current_end - width + 1)
             reset  == start0 > gen.current_end
             start  == IF reset THEN 0 ELSE start0
             cend   == IF reset THEN 0 ELSE gen.current_end
         IN  [ profiles |-> Append(gen.profiles,
                   [ worker_id    |-> gen.worker_id,
                     type         |-> kind,
                     start_thread |-> start,
                     end_thread   |-> cend,
                     hex_mask     |-> get_affinity_mask(start, cend),
                     use_gpu      |-> UseGpu(kind) ]),
               current_end      |-> start,
               worker_id        |-> gen.worker_id + 1,
               assigned_threads |-> gen.assigned_threads + width ]

\* variant: a skipped profile uses up its worker_id
AssignProfile_IdOnSkip(c, gen, kind, width) ==
    IF gen.assigned_threads + width > MaxAllocatable(c)
    THEN [ gen EXCEPT !.worker_id = @ + 1 ]
    ELSE LET start0 == Max(0, gen.current_end - width + 1)
             reset  == start0 > gen.current_end
             start  == IF reset THEN 0 ELSE start0
             cend   == IF reset THEN 0 ELSE gen.current_end
         IN  [ profiles |-> Append(gen.profiles,
                   [ worker_id    |-> gen.worker_id,
                     type         |-> kind,
                     start_thread |-> start,
                     end_thread   |-> cend,
                     hex_mask     |-> get_affinity_mask(start, cend),
                     use_gpu      |-> UseGpu(kind) ]),
               current_end      |-> start - 1,
               worker_id        |-> gen.worker_id + 1,
               assigned_threads |-> gen.assigned_threads + width ]

\* One iteration of either assignment loop; `continue` leaves gen unchanged.
AssignProfile(c, gen, kind, width) ==
    IF gen.assigned_threads + width > MaxAllocatable(c)
    THEN gen
    ELSE LET start0 == Max(0, gen.current_end - width + 1)
             reset  == start0 > gen.current_end
             start  == IF reset THEN 0 ELSE start0
             cend   == IF reset THEN 0 ELSE gen.current_end
         IN  [ profiles |-> Append(gen.profiles,
                   [ worker_id    |-> gen.worker_id,
                     type         |-> kind,
                     start_thread |-> start,
                     end_thread   |-> cend,
                     hex_mask     |-> get_affinity_mask(start, cend),
                     use_gpu      |-> UseGpu(kind) ]),
               current_end      |-> start - 1,
               worker_id        |-> gen.worker_id + 1,
               assigned_threads |-> gen.assigned_threads + width ]

RECURSIVE AssignLoop(_, _, _, _, _)
AssignLoop(c, gen, kind, width, n) ==
    IF n <= 0 THEN gen
    ELSE AssignLoop(c, AssignProfile(c, gen, kind, width), kind, width, n - 1)

generate_worker_profiles(c, max_workers_, max_gpu, job_count) ==
    LET effective_workers == EffectiveWorkers(max_workers_, job_count)
        gpu_count == GpuCount(effective_workers, max_gpu)
        cpu_count == CpuCount(effective_workers, gpu_count)
        gen0 == [ profiles |-> << >>, current_end |-> c.total_threads - 1,
                  worker_id |-> 1, assigned_threads |-> 0 ]
        gen1 == AssignLoop(c, gen0, "gpu", c.cpu_threads_gpu_instance, gpu_count)
        gen2 == AssignLoop(c, gen1, "cpu", c.cpu_threads_cpu_instance, cpu_count)
    IN  gen2.profiles

(***************************************************************************)
(* Jobs and result records.                                                *)
(***************************************************************************)
FileCount(j) == j

Job(j) == [ input_folder |-> j, output_template |-> << "tpl", j >>,
            file_count |-> FileCount(j) ]

JobList(n) == [ j \in 1..n |-> Job(j) ]

\* job.get('file_count', 0)
JobFileCount(job) == IF "file_count" \in DOMAIN job THEN job.file_count ELSE 0

RECURSIVE TotalFiles(_)
TotalFiles(js) ==
    IF js = << >> THEN 0 ELSE JobFileCount(Head(js)) + TotalFiles(Tail(js))

EmptyResults ==
    [ completed |-> 0, failed |-> 0, failed_jobs |-> << >>, results |-> << >>,
      files_completed |-> 0 ]

JobResult(job, ok, err) ==
    [ success |-> ok, folder |-> job.input_folder, failed_files |-> << >>,
      error |-> err ]

(***************************************************************************)
(* Text as sequences of characters; a regular expression is run as the set *)
(* of positions it can reach after consuming a part of the text.           *)
(***************************************************************************)
UpperCase ==
    << "A", "B", "C", "D", "E", "F", "G", "H", "I", "J", "K", "L", "M", "N",
       "O", "P", "Q", "R", "S", "T", "U", "V", "W", "X", "Y", "Z" >>

LowerCase ==
    << "a", "b", "c", "d", "e", "f", "g", "h", "i", "j", "k", "l", "m", "n",
       "o", "p", "q", "r", "s", "t", "u", "v", "w", "x", "y", "z" >>

Chars(q) == { q[k] : k \in 1..Len(q) }

AsciiLetters == Chars(UpperCase) \cup Chars(LowerCase)      \* [A-Za-z]

Digits == { "0", "1", "2", "3", "4", "5", "6", "7", "8", "9" }   \* \d

WordChars == AsciiLetters \cup Digits \cup { "_" }          \* \w

\* one character of the class, from any of the positions P
MatchChar(name, P, class) ==
    { p + 1 : p \in { q \in P : q <= Len(name) /\ name[q] \in class } }

\* class{n}
RECURSIVE MatchCount(_, _, _, _)
MatchCount(name, P, class, n) ==
    IF n = 0 THEN P
    ELSE MatchCount(name, MatchChar(name, P, class), class, n - 1)

\* class+
RECURSIVE MatchPlus(_, _, _)
MatchPlus(name, P, class) ==
    LET one == MatchChar(name, P, class)
    IN  IF one = {} THEN {} ELSE one \cup MatchPlus(name, one, class)

\* the letter c in the other case; any other character unchanged
OtherCase(c) ==
    IF \E k \in 1..26 : UpperCase[k] = c
    THEN LowerCase[CHOOSE k \in 1..26 : UpperCase[k] = c]
    ELSE IF \E k \in 1..26 : LowerCase[k] = c
    THEN UpperCase[CHOOSE k \in 1..26 : LowerCase[k] = c]
    ELSE c

\* a literal text, in either letter case (re.IGNORECASE)
RECURSIVE MatchLiteral(_, _, _)
MatchLiteral(line, P, literal) ==
    IF literal = << >> THEN P
    ELSE MatchLiteral(line,
                      MatchChar(line, P, { Head(literal), OtherCase(Head(literal)) }),
                      Tail(literal))

\* the characters of the explored texts; [^\s] is every one of them but the space
TextChars == WordChars \cup { ":", "/", ".", " " }

NonSpace == TextChars \ { " " }

\* the stderr texts the renderer is modelled to write
Stderrs == { "", "C:/raw/a.arw: conversion failed" }

\* the stderr texts _extract_failed_files is explored on
StderrTexts ==
    Stderrs \cup
    { "C:/raw/b.ORF: failed",
      "C:/a.ARW bad\nd:/c.dng bad",
      "C:/a.arw C:/b.nef",
      "/mnt/e.nef bad",
      "error 5 in main.c",
      "C:/f.rw2\nC:/g.raf\nC:/h.pef",
      "x C:/a.ARW.bak" }

\* stderr.split('\n'): the lines of each explored text, character by character
StderrLines(stderr) ==
    CASE stderr = "" -> << >>
      [] stderr = "C:/raw/a.arw: conversion failed" ->
          <<
             << "C", ":", "/", "r", "a", "w", "/", "a", ".", "a", "r", "w",
                ":", " ", "c", "o", "n", "v", "e", "r", "s", "i", "o", "n",
                " ", "f", "a", "i", "l", "e", "d" >>
          >>
      [] stderr = "C:/raw/b.ORF: failed" ->
          <<
             << "C", ":", "/", "r", "a", "w", "/", "b", ".", "O", "R", "F",
                ":", " ", "f", "a", "i", "l", "e", "d" >>
          >>
      [] stderr = "C:/a.ARW bad\nd:/c.dng bad" ->
          <<
             << "C", ":", "/", "a", ".", "A", "R", "W", " ", "b", "a", "d" >>,
             << "d", ":", "/", "c", ".", "d", "n", "g", " ", "b", "a", "d" >>
          >>
      [] stderr = "C:/a.arw C:/b.nef" ->
          <<
             << "C", ":", "/", "a", ".", "a", "r", "w", " ", "C", ":", "/",
                "b", ".", "n", "e", "f" >>
          >>
      [] stderr = "/mnt/e.nef bad" ->
          <<
             << "/", "m", "n", "t", "/", "e", ".", "n", "e", "f", " ", "b",
                "a", "d" >>
          >>
      [] stderr = "error 5 in main.c" ->
          <<
             << "e", "r", "r", "o", "r", " ", "5", " ", "i", "n", " ", "m",
                "a", "i", "n", ".", "c" >>
          >>
      [] stderr = "C:/f.rw2\nC:/g.raf\nC:/h.pef" ->
          <<
             << "C", ":", "/", "f", ".", "r", "w", "2" >>,
             << "C", ":", "/", "g", ".", "r", "a", "f" >>,
             << "C", ":", "/", "h", ".", "p", "e", "f" >>
          >>
      [] stderr = "x C:/a.ARW.bak" ->
          <<
             << "x", " ", "C", ":", "/", "a", ".", "A", "R", "W", ".", "b",
                "a", "k" >>
          >>

\* the extensions of the regular expression of line 208
RegexExtensions ==
    { << "a", "r", "w" >>,
      << "c", "r", "2" >>,
      << "c", "r", "3" >>,
      << "n", "e", "f" >>,
      << "d", "n", "g" >> }

\* ([A-Za-z]:[^\s]+\.(arw|cr2|cr3|nef|dng)) started at position p: the positions
\* it can end at
RawPathEnds(line, p) ==
    LET drive == MatchChar(line, { p }, AsciiLetters)
        colon == MatchChar(line, drive, { ":" })
        body  == MatchPlus(line, colon, NonSpace)
        dot   == MatchChar(line, body, { "." })
    IN  UNION { MatchLiteral(line, dot, e) : e \in RegexExtensions }

\* re.search: the leftmost start; [^\s]+ is greedy, so the furthest end
Search(line) ==
    LET starts == { p \in 1..Len(line) : RawPathEnds(line, p) # {} }
    IN  IF starts = {} THEN << >>
        ELSE LET p == CHOOSE a \in starts : \A b \in starts : a <= b
                 ends == RawPathEnds(line, p)
                 q == CHOOSE a \in ends : \A b \in ends : a >= b
             IN  << SubSeq(line, p, q - 1) >>

\* lines 207-210: one path at most is appended per line
RECURSIVE MatchedPaths(_)
MatchedPaths(lines) ==
    IF lines = << >> THEN << >>
    ELSE Search(Head(lines)) \o MatchedPaths(Tail(lines))

extract_failed_files(stderr) ==
    IF stderr = "" THEN << >> ELSE MatchedPaths(StderrLines(stderr))

\* f"Exit code: {proc.returncode}"
ExitCodeText(returncode) ==
    IF returncode = 0 THEN "Exit code: 0" ELSE "Exit code: 1"

\* line 192: proc.stderr or f"Exit code: {proc.returncode}"
ErrorText(stderr, returncode) ==
    IF stderr # "" THEN stderr ELSE ExitCodeText(returncode)

\* variant: the except branch reports the run as a success
LaunchError_Success(job, e) == JobResult(job, TRUE, e)

\* lines 195-196: the JobResult of a run whose subprocess.run raised e
LaunchError(job, e) == JobResult(job, FALSE, e)

\* variant: one directory name for every worker
ConfigDir_Shared(profile) == 0

\* line 153: config_dir, named by the worker_id of the profile
ConfigDir(profile) == profile.worker_id

\* variant: the finally clause does not remove the directory
Rmtree_Skipped(ds, d) == { ds }

\* line 199: shutil.rmtree(config_dir, ignore_errors=True) removes the directory
\* or, when the removal fails, leaves it without raising
Rmtree(ds, d) ==
    IF filesystem = "unreliable" THEN { ds \ { d }, ds } ELSE { ds \ { d } }

\* executor.py 249-256: the entry appended per job when no profile exists
NoProfileEntry(job) ==
    [ input_folder |-> job.input_folder,
      error |-> "No worker profiles available.",
      success |-> FALSE, failed_files |-> << >> ]

\* variant: failed is incremented once, outside the loop over the jobs
NoProfileFailed_Once(js) == IF js = << >> THEN 0 ELSE 1

NoProfileFailed(js) == Len(js)

NoProfileResults(js) ==
    [ EmptyResults EXCEPT !.failed = NoProfileFailed(js),
                          !.failed_jobs = [ i \in 1..Len(js) |-> NoProfileEntry(js[i]) ] ]

NoResult == [ raised |-> FALSE, none |-> TRUE ]

\* ret while an execute_jobs call is in progress
NotReturned == [ none |-> TRUE ]

Renderers == { "always_zero", "always_nonzero", "arbitrary" }

Scenario(r, q, f, cb) ==
    [ renderer |-> r, quiet |-> q, filesystem |-> f, progress_callback |-> cb ]

\* the runs explored: every renderer behaviour for SandboxExecutor(quiet=True)
\* called without a callback on a filesystem whose removals succeed, and each
\* other setting together with one renderer behaviour
Scenarios ==
    { Scenario(r, TRUE, "reliable", FALSE) : r \in Renderers }
        \cup { Scenario("always_zero", TRUE, "unreliable", TRUE),
               Scenario("always_nonzero", FALSE, "reliable", TRUE) }

CfgSet ==
    [ total_threads : { TotalThreads },
      max_workers : 1..MaxWorkers,
      gpu_instances : 0..MaxGpu,
      cpu_threads_gpu_instance : { ThreadWidth },
      cpu_threads_cpu_instance : { ThreadWidth },
      reserved_core_count : { 0, ThreadWidth, TotalThreads },
      max_retry : { ConfigMaxRetry } ]

RetryArgs == { << >> } \cup { << k >> : k \in 0..MaxRetryArg }

NoPin == [ none |-> TRUE ]

(***************************************************************************)
(* Task states of a future submitted to the ThreadPoolExecutor.            *)
(***************************************************************************)
OnThread == { "acquire", "holding", "checked", "running", "finishing" }

Tasks == DOMAIN fut

InFlight == { i \in Tasks : fut[i] = "running" }

Holders == { i \in Tasks : held[i] # << >> }

BusyThreads == Cardinality({ i \in Tasks : fut[i] \in OnThread })

\* the work queue of the pool is FIFO; cancelled items are skipped
NextPending(i) ==
    /\ fut[i] = "pending"
    /\ \A k \in Tasks : k < i => fut[k] # "pending"

Quiet == \A i \in Tasks : fut[i] \notin (OnThread \cup { "pending" })

(***************************************************************************)
(* execute_jobs, lines 219-259 and 280: everything up to the as_completed  *)
(* loop.  Returns at once for an empty list and when no profile exists.    *)
(***************************************************************************)
NoProfiles(ps) == Len(ps) = 0

\* variant: the flag of the previous call is kept
FlagAtEntry_Kept(flag) == flag

\* lines 219-220: _shutdown_requested = False
FlagAtEntry(flag) == FALSE

execute_jobs_begin(js) ==
    LET ps == generate_worker_profiles(cfg, cfg.max_workers, cfg.gpu_instances, Len(js))
    IN  /\ shutdown_requested' = FlagAtEntry(shutdown_requested)
        /\ jobs' = js
        /\ collected' = {}
        /\ files_completed' = 0
        /\ cmd' = [ i \in 1..Len(js) |-> << >> ]
        /\ proc' = [ i \in 1..Len(js) |-> << >> ]
        /\ pbar_n' = 0
        /\ callback_log' = << >>
        /\ last_user' = [ w \in 1..Len(ps) |-> 0 ]
        /\ held' = [ i \in 1..Len(js) |-> << >> ]
        /\ fres' = [ i \in 1..Len(js) |-> NoResult ]
        /\ at_cancel' = {}
        /\ IF js = << >>
           THEN /\ UNCHANGED << profiles, profile_queue >>
                /\ fut' = << >>
                /\ results' = EmptyResults
                /\ ret' = EmptyResults
                /\ mainpc' = "returned"
           ELSE /\ profiles' = ps
                /\ profile_queue' = ps
                /\ IF NoProfiles(ps)
                   THEN /\ fut' = [ i \in 1..Len(js) |-> "unsubmitted" ]
                        /\ results' = NoProfileResults(js)
                        /\ ret' = NoProfileResults(js)
                        /\ mainpc' = "returned"
                   ELSE /\ fut' = [ i \in 1..Len(js) |-> "pending" ]
                        /\ results' = EmptyResults
                        /\ ret' = NotReturned
                        /\ mainpc' = "collect"

\* the state after SandboxExecutor() was constructed, for the configurations cs
Constructed(cs, longest) ==
    /\ cfg \in cs
    /\ \E sc \in Scenarios :
         /\ renderer = sc.renderer
         /\ quiet = sc.quiet
         /\ filesystem = sc.filesystem
         /\ progress_callback = sc.progress_callback
    /\ all_jobs \in { JobList(n) : n \in 0..longest }
    /\ cpc = "start"
    /\ mainpc = "idle"
    /\ shutdown_requested = FALSE
    /\ jobs = << >>
    /\ profiles = << >>
    /\ profile_queue = << >>
    /\ fut = << >>
    /\ held = << >>
    /\ fres = << >>
    /\ cmd = << >>
    /\ proc = << >>
    /\ pbar_n = 0
    /\ callback_log = << >>
    /\ last_user = << >>
    /\ collected = {}
    /\ results = EmptyResults
    /\ files_completed = 0
    /\ ret = EmptyResults
    /\ dirs = {}
    /\ retry_arg = << >>
    /\ failed_jobs = << >>
    /\ max_retries = 0
    /\ attempt = 0
    /\ remaining = << >>
    /\ all_results = [ completed |-> 0, failed |-> 0, failed_jobs |-> << >>,
                       results |-> << >> ]
    /\ rounds = 0
    /\ retry_launches = [ j \in 1..MaxJobs |-> 0 ]
    /\ at_cancel = {}
    /\ interrupted = FALSE
    /\ pin = NoPin
    /\ pout = << >>

Init == Constructed(CfgSet, MaxJobs)

callerVars ==
    << retry_arg, failed_jobs, max_retries, attempt, remaining, all_results, rounds >>
histVars == << retry_launches, interrupted >>
envVars == << cfg, renderer, quiet, filesystem, all_jobs, pin, pout >>
progressVars == << pbar_n, callback_log >>

\* cli.py 197: results = executor.execute_jobs(jobs)
CliExecute ==
    /\ cpc = "start"
    /\ execute_jobs_begin(all_jobs)
    /\ cpc' = "first"
    /\ UNCHANGED << dirs, callerVars, histVars, envVars, progress_callback >>

(***************************************************************************)
(* task_wrapper and _run_conversion, run by the pool threads.              *)
(***************************************************************************)
\* variant: one pool thread fewer than profiles
ActiveThreadCount_OneLess(ps) == Len(ps) - 1

\* line 245: active_thread_count = len(self.profiles)
ActiveThreadCount(ps) == Len(ps)

\* a pool thread (there are active_thread_count of them) takes the next work item
TaskStart(i) ==
    /\ NextPending(i)
    /\ BusyThreads < ActiveThreadCount(profiles)
    /\ fut' = [ fut EXCEPT ![i] = "acquire" ]
    /\ UNCHANGED << cpc, mainpc, shutdown_requested, jobs, profiles, profile_queue,
                    held, fres, cmd, collected, results, files_completed, ret,
                    dirs, callerVars, histVars, at_cancel, envVars, progress_callback,
                    proc, progressVars, last_user >>

\* variant: the profile is read but stays in the queue
QueueAfterGet_Peek(q) == q

\* variant: the last profile is removed instead of the one returned
QueueAfterGet_DropLast(q) == SubSeq(q, 1, Len(q) - 1)

QueueAfterGet(q) == Tail(q)

\* line 267: profile = self.profile_queue.get()   (blocks while the queue is empty)
AcquireProfile(i) ==
    /\ fut[i] = "acquire"
    /\ profile_queue # << >>
    /\ held' = [ held EXCEPT ![i] = << Head(profile_queue) >> ]
    /\ profile_queue' = QueueAfterGet(profile_queue)
    /\ last_user' = [ last_user EXCEPT ![Head(profile_queue).worker_id] = i ]
    /\ fut' = [ fut EXCEPT ![i] = "holding" ]
    /\ UNCHANGED << cpc, mainpc, shutdown_requested, jobs, profiles,
                    fres, cmd, collected, results, files_completed, ret,
                    dirs, callerVars, histVars, at_cancel, envVars, progress_callback,
                    proc, progressVars >>

\* variant: the shutdown check is missing
ShutdownSeen_Never(flag) == FALSE

ShutdownSeen(flag) == flag

\* lines 269-275: if _shutdown_requested: return the "Shutdown requested" failure
CheckShutdown(i) ==
    /\ fut[i] = "holding"
    /\ IF ShutdownSeen(shutdown_requested)
       THEN /\ fres' = [ fres EXCEPT ![i] =
                  [ raised |-> FALSE,
                    result |-> JobResult(jobs[i], FALSE, "Shutdown requested") ] ]
            /\ fut' = [ fut EXCEPT ![i] = "finishing" ]
       ELSE /\ fut' = [ fut EXCEPT ![i] = "checked" ]
            /\ UNCHANGED fres
    /\ UNCHANGED << cpc, mainpc, shutdown_requested, jobs, profiles, profile_queue,
                    held, cmd, collected, results, files_completed, ret,
                    dirs, callerVars, histVars, at_cancel, envVars, progress_callback,
                    proc, progressVars, last_user >>

Profile(i) == held[i][1]

\* lines 151-175: the command line built from the profile
CommandLine(job, profile) ==
    [ affinity |-> profile.hex_mask,
      input_folder |-> job.input_folder,
      output_template |-> job.output_template,
      configdir |-> ConfigDir(profile),
      opencl |-> IF profile.use_gpu THEN "TRUE" ELSE "FALSE" ]

CountLaunch(count, folder) == [ count EXCEPT ![folder] = @ + 1 ]

\* lines 155-187: os.makedirs(config_dir), then subprocess.run starts the renderer
Launch(i) ==
    /\ fut[i] = "checked"
    /\ dirs' = dirs \cup { ConfigDir(Profile(i)) }
    /\ cmd' = [ cmd EXCEPT ![i] = << CommandLine(jobs[i], Profile(i)) >> ]
    /\ fut' = [ fut EXCEPT ![i] = "running" ]
    /\ retry_launches' = IF cpc = "retry_call"
                         THEN CountLaunch(retry_launches, jobs[i].input_folder)
                         ELSE retry_launches
    /\ UNCHANGED << cpc, mainpc, shutdown_requested, jobs, profiles, profile_queue,
                    held, fres, collected, results, files_completed, ret,
                    callerVars, at_cancel, interrupted, envVars, progress_callback,
                    proc, progressVars, last_user >>

\* line 156 raising (OSError): the exception leaves task_wrapper through its finally
MakedirsFails(i) ==
    /\ fut[i] = "checked"
    /\ renderer = "arbitrary"
    /\ fres' = [ fres EXCEPT ![i] = [ raised |-> TRUE, error |-> "makedirs" ] ]
    /\ fut' = [ fut EXCEPT ![i] = "finishing" ]
    /\ UNCHANGED << cpc, mainpc, shutdown_requested, jobs, profiles, profile_queue,
                    held, cmd, collected, results, files_completed, ret,
                    dirs, callerVars, histVars, at_cancel, envVars, progress_callback,
                    proc, progressVars, last_user >>

\* lines 195-199: subprocess.run raising; error = str(e), then rmtree
LaunchFails(i) ==
    /\ fut[i] = "checked"
    /\ renderer = "arbitrary"
    /\ fres' = [ fres EXCEPT ![i] =
           [ raised |-> FALSE, result |-> LaunchError(jobs[i], "launch") ] ]
    /\ dirs' \in Rmtree(dirs, ConfigDir(Profile(i)))
    /\ fut' = [ fut EXCEPT ![i] = "finishing" ]
    /\ UNCHANGED << cpc, mainpc, shutdown_requested, jobs, profiles, profile_queue,
                    held, cmd, collected, results, files_completed, ret,
                    callerVars, histVars, at_cancel, envVars, progress_callback,
                    proc, progressVars, last_user >>

ExitCodes == IF renderer = "always_zero" THEN { 0 }
             ELSE IF renderer = "always_nonzero" THEN { 1 }
             ELSE { 0, 1 }

\* variant: the exit-code test is inverted
Succeeded_Inverted(returncode) == returncode # 0

Succeeded(returncode) == returncode = 0

\* lines 177-178: what subprocess.run captures of the renderer's stderr; with
\* self.quiet the command redirects it to NUL
StderrOutputs == IF quiet THEN { "" } ELSE Stderrs

\* lines 189-193: the JobResult of a run whose renderer exited
RunResult(job, returncode, stderr) ==
    IF Succeeded(returncode)
    THEN JobResult(job, TRUE, "None")
    ELSE [ JobResult(job, FALSE, ErrorText(stderr, returncode))
             EXCEPT !.failed_files = extract_failed_files(stderr) ]

\* lines 189-201: the renderer exits; outcome mapping, then rmtree in finally
RendererExits(i) ==
    /\ fut[i] = "running"
    /\ \E returncode \in ExitCodes, stderr \in StderrOutputs :
         /\ proc' = [ proc EXCEPT ![i] = << returncode >> ]
         /\ fres' = [ fres EXCEPT ![i] =
                [ raised |-> FALSE,
                  result |-> RunResult(jobs[i], returncode, stderr) ] ]
    /\ dirs' \in Rmtree(dirs, ConfigDir(Profile(i)))
    /\ fut' = [ fut EXCEPT ![i] = "finishing" ]
    /\ UNCHANGED << cpc, mainpc, shutdown_requested, jobs, profiles, profile_queue,
                    held, cmd, collected, results, files_completed, ret,
                    callerVars, histVars, at_cancel, envVars, progress_callback,
                    progressVars, last_user >>

\* variant: the profile is not put back
QueueAfterPut_Dropped(q, profile) == q

\* line 278: self.profile_queue.put(profile)
QueueAfterPut(q, profile) == Append(q, profile)

\* lines 277-278: finally: self.profile_queue.put(profile); the future completes
ReleaseProfile(i) ==
    /\ fut[i] = "finishing"
    /\ profile_queue' = QueueAfterPut(profile_queue, Profile(i))
    /\ held' = [ held EXCEPT ![i] = << >> ]
    /\ fut' = [ fut EXCEPT ![i] = "done" ]
    /\ UNCHANGED << cpc, mainpc, shutdown_requested, jobs, profiles,
                    fres, cmd, collected, results, files_completed, ret,
                    dirs, callerVars, histVars, at_cancel, envVars, progress_callback,
                    proc, progressVars, last_user >>

(***************************************************************************)
(* The main thread: the as_completed loop (lines 282-320), the exit of the *)
(* "with ThreadPoolExecutor" block and the return (lines 322-327).         *)
(***************************************************************************)
\* lines 286-294: future.result(), an exception becomes a failed JobResult
FutureResult(i) ==
    IF fres[i].raised
    THEN JobResult(jobs[i], FALSE, fres[i].error)
    ELSE fres[i].result

\* variant: the result of a failed job is not appended to results
Record_DropFailed(res, job, result) ==
    [ res EXCEPT !.results = IF result.success THEN Append(@, result) ELSE @,
                 !.completed = IF result.success THEN @ + 1 ELSE @,
                 !.failed = IF result.success THEN @ ELSE @ + 1,
                 !.failed_jobs = IF result.success THEN @ ELSE Append(@, job) ]

\* lines 296-307
Record(res, job, result) ==
    [ res EXCEPT !.results = Append(@, result),
                 !.completed = IF result.success THEN @ + 1 ELSE @,
                 !.failed = IF result.success THEN @ ELSE @ + 1,
                 !.failed_jobs = IF result.success THEN @ ELSE Append(@, job) ]

\* variant: the progress bar advances by one per job
Advance_ByOne(job) == 1

\* line 298: pbar.update(job_file_count)
Advance(job) == JobFileCount(job)

\* line 318-319: f.cancel() takes effect on futures that are still pending
CancelAll(f) == [ k \in DOMAIN f |-> IF f[k] = "pending" THEN "cancelled" ELSE f[k] ]

Collect(i) ==
    /\ mainpc = "collect"
    /\ i \in Tasks
    /\ fut[i] = "done"
    /\ i \notin collected
    /\ results' = Record(results, jobs[i], FutureResult(i))
    /\ pbar_n' = pbar_n + Advance(jobs[i])
    /\ files_completed' = files_completed + JobFileCount(jobs[i])
    /\ callback_log' = IF progress_callback
                       THEN Append(callback_log, FutureResult(i))
                       ELSE callback_log
    /\ collected' = collected \cup { i }
    /\ IF shutdown_requested
       THEN /\ fut' = CancelAll(fut)
            /\ mainpc' = "closing"
       ELSE /\ fut' = fut
            /\ mainpc' = IF collected' = Tasks THEN "closing" ELSE "collect"
    /\ UNCHANGED << cpc, shutdown_requested, jobs, profiles, profile_queue,
                    held, fres, cmd, ret, dirs, callerVars, histVars,
                    at_cancel, envVars, progress_callback,
                    proc, last_user >>

\* ThreadPoolExecutor.__exit__ is shutdown(wait=True): it joins the pool threads,
\* which first drain every work item that was not cancelled
PoolJoined == Quiet

\* lines 322-327
ExecuteReturn ==
    /\ mainpc = "closing"
    /\ PoolJoined
    /\ results' = [ results EXCEPT !.files_completed = files_completed ]
    /\ ret' = results'
    /\ mainpc' = "returned"
    /\ UNCHANGED << cpc, shutdown_requested, jobs, profiles, profile_queue, fut,
                    held, fres, cmd, collected, files_completed, dirs,
                    callerVars, histVars, at_cancel, envVars, progress_callback,
                    proc, progressVars, last_user >>

\* SystemExit raised by the handler leaves through the same with-block and finally
ProcessExit ==
    /\ mainpc = "unwinding"
    /\ PoolJoined
    /\ mainpc' = "exited"
    /\ UNCHANGED << cpc, shutdown_requested, jobs, profiles, profile_queue, fut,
                    held, fres, cmd, collected, results, files_completed, ret,
                    dirs, callerVars, histVars, at_cancel, envVars, progress_callback,
                    proc, progressVars, last_user >>

PastCheck == { i \in Tasks : fut[i] \in { "checked", "running", "finishing", "done" } }

\* _signal_handler (lines 27-37), installed from line 259 to line 324
Sigint ==
    /\ mainpc \in { "collect", "closing" }
    /\ IF shutdown_requested
       THEN /\ mainpc' = "unwinding"
            /\ UNCHANGED << shutdown_requested, at_cancel >>
       ELSE /\ shutdown_requested' = TRUE
            /\ at_cancel' = PastCheck
            /\ UNCHANGED mainpc
    /\ interrupted' = TRUE
    /\ UNCHANGED << cpc, jobs, profiles, profile_queue, fut, held, fres, cmd,
                    collected, results, files_completed, ret, dirs,
                    callerVars, retry_launches, envVars, progress_callback,
                    proc, progressVars, last_user >>

(***************************************************************************)
(* retry_failed_jobs (lines 329-360), called as in cli.py 202.             *)
(***************************************************************************)
\* line 334: max_retries = max_retries or self.max_retry
EffectiveRetries(arg) ==
    IF arg = << >> \/ arg = << 0 >> THEN cfg.max_retry ELSE arg[1]

RetryBegin ==
    /\ cpc = "first"
    /\ mainpc = "returned"
    /\ \E arg \in RetryArgs :
         /\ retry_arg' = arg
         /\ max_retries' = EffectiveRetries(arg)
    /\ failed_jobs' = ret.failed_jobs
    /\ remaining' = failed_jobs'
    /\ all_results' = [ completed |-> 0, failed |-> 0, failed_jobs |-> << >>,
                        results |-> << >> ]
    /\ attempt' = 1
    /\ rounds' = 0
    /\ cpc' = "retry"
    /\ UNCHANGED << mainpc, shutdown_requested, jobs, profiles, profile_queue, fut,
                    held, fres, cmd, collected, results, files_completed, ret,
                    dirs, histVars, at_cancel, envVars, progress_callback,
                    proc, progressVars, last_user >>

LoopContinues == attempt <= max_retries /\ remaining # << >>

\* lines 344-350
RetryCall ==
    /\ cpc = "retry"
    /\ LoopContinues
    /\ execute_jobs_begin(remaining)
    /\ progress_callback' = FALSE
    /\ rounds' = rounds + 1
    /\ cpc' = "retry_call"
    /\ UNCHANGED << retry_arg, failed_jobs, max_retries, attempt, remaining, all_results,
                    dirs, histVars, envVars >>

\* variant: every job of the round is retried
NextRemaining_All(retry_results, round_jobs) == round_jobs

\* line 355: remaining = retry_results['failed_jobs']
NextRemaining(retry_results, round_jobs) == retry_results.failed_jobs

\* variant: the total is replaced by the count of the last round
AddCompleted_Replace(total, retry_results) == retry_results.completed

\* line 352: all_results['completed'] += retry_results['completed']
AddCompleted(total, retry_results) == total + retry_results.completed

\* lines 352-355
RetryMerge ==
    /\ cpc = "retry_call"
    /\ mainpc = "returned"
    /\ all_results' = [ all_results EXCEPT
                          !.completed = AddCompleted(@, ret),
                          !.results = @ \o ret.results ]
    /\ remaining' = NextRemaining(ret, jobs)
    /\ attempt' = attempt + 1
    /\ cpc' = "retry"
    /\ UNCHANGED << retry_arg, failed_jobs, max_retries, rounds, mainpc, shutdown_requested,
                    jobs, profiles, profile_queue, fut, held, fres, cmd,
                    collected, results, files_completed, ret, dirs, histVars,
                    at_cancel, envVars, progress_callback,
                    proc, progressVars, last_user >>

\* lines 357-360
RetryReturn ==
    /\ cpc = "retry"
    /\ ~LoopContinues
    /\ all_results' = [ all_results EXCEPT !.failed = Len(remaining),
                                           !.failed_jobs = remaining ]
    /\ cpc' = "done"
    /\ UNCHANGED << retry_arg, failed_jobs, max_retries, attempt, remaining, rounds, mainpc,
                    shutdown_requested, jobs, profiles, profile_queue, fut, held,
                    fres, cmd, collected, results, files_completed, ret, dirs,
                    histVars, at_cancel, envVars, progress_callback,
                    proc, progressVars, last_user >>

Next ==
    \/ CliExecute
    \/ \E i \in Tasks : TaskStart(i)
    \/ \E i \in Tasks : AcquireProfile(i)
    \/ \E i \in Tasks : CheckShutdown(i)
    \/ \E i \in Tasks : Launch(i)
    \/ \E i \in Tasks : MakedirsFails(i)
    \/ \E i \in Tasks : LaunchFails(i)
    \/ \E i \in Tasks : RendererExits(i)
    \/ \E i \in Tasks : ReleaseProfile(i)
    \/ \E i \in Tasks : Collect(i)
    \/ ExecuteReturn
    \/ ProcessExit
    \/ Sigint

\* one execute_jobs call, as made by cli.py 197
Spec == Init /\ [][Next]_vars

\* one execute_jobs call during which no SIGINT is delivered
NextUninterrupted ==
    \/ CliExecute
    \/ \E i \in Tasks : TaskStart(i)
    \/ \E i \in Tasks : AcquireProfile(i)
    \/ \E i \in Tasks : CheckShutdown(i)
    \/ \E i \in Tasks : Launch(i)
    \/ \E i \in Tasks : MakedirsFails(i)
    \/ \E i \in Tasks : LaunchFails(i)
    \/ \E i \in Tasks : RendererExits(i)
    \/ \E i \in Tasks : ReleaseProfile(i)
    \/ \E i \in Tasks : Collect(i)
    \/ ExecuteReturn

\* a pool thread that can take a step takes it, a started renderer exits, and
\* the main thread goes on when a future is done or the pool has been joined
ThreadsRun ==
    \A i \in 1..MaxJobs :
        /\ WF_vars(i \in Tasks /\ TaskStart(i))
        /\ WF_vars(i \in Tasks /\ AcquireProfile(i))
        /\ WF_vars(i \in Tasks /\ CheckShutdown(i))
        /\ WF_vars(i \in Tasks /\ (Launch(i) \/ MakedirsFails(i) \/ LaunchFails(i)))
        /\ WF_vars(i \in Tasks /\ RendererExits(i))
        /\ WF_vars(i \in Tasks /\ ReleaseProfile(i))
        /\ WF_vars(i \in Tasks /\ Collect(i))

\* the renderer may exit with any code or fail to start; what it writes and
\* whether the sandbox can be removed do not change which steps are possible
InitTerminates ==
    /\ Constructed(CfgSet, MaxJobs)
    /\ renderer = "arbitrary"
    /\ quiet
    /\ filesystem = "reliable"
    /\ ~progress_callback

SpecTerminates ==
    InitTerminates /\ [][NextUninterrupted]_vars /\ ThreadsRun
        /\ WF_vars(ExecuteReturn)

\* the configurations explored together with retry_failed_jobs: both widths
\* ThreadWidth, no gpu instance, and either every thread or no thread allocatable
RetryCfgSet ==
    { c \in CfgSet : c.gpu_instances = 0 /\ c.reserved_core_count \in { 0, c.total_threads } }

InitRetry ==
    /\ Constructed(RetryCfgSet, MaxJobs)
    /\ quiet
    /\ filesystem = "reliable"
    /\ ~progress_callback

NextRetry ==
    \/ Next
    \/ RetryBegin
    \/ RetryCall
    \/ RetryMerge
    \/ RetryReturn

\* execute_jobs followed by retry_failed_jobs, as made by cli.py 197-202
SpecRetry == InitRetry /\ [][NextRetry]_vars

(***************************************************************************)
(* generate_worker_profiles on its own: the inputs are drawn from bounded  *)
(* sets (thread widths from 0, max_gpu from -MinGpuArg) and one action     *)
(* evaluates the function.                                                 *)
(***************************************************************************)
GenCfgSet ==
    [ total_threads : { TotalThreads },
      max_workers : { 0 },
      gpu_instances : { 0 },
      cpu_threads_gpu_instance : 0..MaxWidth,
      cpu_threads_cpu_instance : 0..MaxWidth,
      reserved_core_count : 0..MaxReserved,
      max_retry : { ConfigMaxRetry } ]

PinSet ==
    [ max_workers : 0..MaxWorkerArg,
      max_gpu : (0 - MinGpuArg)..MaxGpuArg,
      job_count : 0..MaxJobCount ]

InitProfiles ==
    /\ cfg \in GenCfgSet
    /\ pin \in PinSet
    /\ pout = << >>
    /\ renderer = "arbitrary"
    /\ quiet = FALSE
    /\ filesystem = "reliable"
    /\ progress_callback = FALSE
    /\ all_jobs = << >>
    /\ cpc = "generator"
    /\ mainpc = "idle"
    /\ shutdown_requested = FALSE
    /\ jobs = << >>
    /\ profiles = << >>
    /\ profile_queue = << >>
    /\ fut = << >>
    /\ held = << >>
    /\ fres = << >>
    /\ cmd = << >>
    /\ proc = << >>
    /\ pbar_n = 0
    /\ callback_log = << >>
    /\ last_user = << >>
    /\ collected = {}
    /\ results = EmptyResults
    /\ files_completed = 0
    /\ ret = EmptyResults
    /\ dirs = {}
    /\ retry_arg = << >>
    /\ failed_jobs = << >>
    /\ max_retries = 0
    /\ attempt = 0
    /\ remaining = << >>
    /\ all_results = [ completed |-> 0, failed |-> 0, failed_jobs |-> << >>,
                       results |-> << >> ]
    /\ rounds = 0
    /\ retry_launches = [ j \in 1..MaxJobs |-> 0 ]
    /\ at_cancel = {}
    /\ interrupted = FALSE

\* pout becomes << the returned list >>
Generate ==
    /\ cpc = "generator"
    /\ pout = << >>
    /\ pout' = << generate_worker_profiles(cfg, pin.max_workers, pin.max_gpu,
                                           pin.job_count) >>
    /\ UNCHANGED << cfg, renderer, quiet, filesystem, all_jobs, cpc, mainpc,
                    shutdown_requested, jobs,
                    profiles, profile_queue, fut, held, fres, cmd, collected,
                    results, files_completed, ret, dirs, callerVars, histVars,
                    at_cancel, pin, proc, progressVars, last_user,
                    progress_callback >>

NextProfiles == Generate

SpecProfiles == InitProfiles /\ [][NextProfiles]_vars

Generated == pout # << >>

Returned == pout[1]

ThreadRange(p) == p.start_thread..p.end_thread

UsedThreads(ps) == UNION { ThreadRange(ps[k]) : k \in 1..Len(ps) }

PairwiseDisjoint(ps) ==
    \A a, b \in 1..Len(ps) : a # b => ThreadRange(ps[a]) \cap ThreadRange(ps[b]) = {}

WithinBudget(c, ps) ==
    Cardinality(UsedThreads(ps)) <= c.total_threads - c.reserved_core_count

\* C7 as stated: for every job_count, max_workers, max_gpu_workers, thread
\* widths and reserved_cores < total_threads, the thread ranges of the returned
\* profiles are pairwise disjoint and their union has at most
\* total_threads - reserved_cores threads.
C7_DisjointWithinBudget_AnyWidth ==
    (Generated /\ cfg.reserved_core_count < cfg.total_threads)
        => (PairwiseDisjoint(Returned) /\ WithinBudget(cfg, Returned))

\* C7 amended: the same, for thread widths of at least 1.
C7_DisjointWithinBudget ==
    ( /\ Generated
      /\ cfg.reserved_core_count < cfg.total_threads
      /\ cfg.cpu_threads_gpu_instance >= 1
      /\ cfg.cpu_threads_cpu_instance >= 1 )
        => (PairwiseDisjoint(Returned) /\ WithinBudget(cfg, Returned))

\* a gpu and a cpu profile were returned, one requested profile was skipped,
\* and the allocatable budget is used up
C7_Witness ==
    /\ Generated
    /\ cfg.reserved_core_count = 1
    /\ cfg.cpu_threads_gpu_instance = 2
    /\ cfg.cpu_threads_cpu_instance = 1
    /\ Len(Returned) = 2
    /\ Returned[1].type = "gpu"
    /\ Returned[2].type = "cpu"
    /\ Min(pin.max_workers, pin.job_count) = 3
    /\ Cardinality(UsedThreads(Returned)) = cfg.total_threads - cfg.reserved_core_count

\* C8: generate_worker_profiles never returns more profiles than
\* min(max_workers, job_count), whatever max_gpu and the widths are.
C8_AtMostEffectiveWorkers ==
    Generated => Len(Returned) <= Min(pin.max_workers, pin.job_count)

(***************************************************************************)
(* Properties of execute_jobs and retry_failed_jobs, checked under Spec.   *)
(***************************************************************************)
Executing == mainpc \in { "collect", "closing", "unwinding" }

\* C1: during execute_jobs the jobs holding a worker profile, and so the
\* renderer subprocesses in flight, are never more than the generated profiles,
\* and no profile is held by two jobs at the same time.
C1_ProfileExclusion ==
    /\ Cardinality(Holders) <= Len(profiles)
    /\ InFlight \subseteq Holders
    /\ Cardinality(InFlight) <= Len(profiles)
    /\ \A a, b \in Holders : a # b => held[a] # held[b]

\* every profile is in use: two renderers run at once on two distinct profiles
C1_Witness ==
    /\ Len(profiles) = 2
    /\ Cardinality(InFlight) = 2
    /\ \A a, b \in InFlight : a # b => held[a] # held[b]

SumFileCount(js) == SumSeq([ i \in 1..Len(js) |-> js[i].file_count ])

AllSucceeded(r, js) ==
    /\ r.completed = Len(js)
    /\ r.failed = 0
    /\ r.files_completed = SumFileCount(js)

Folders(js) == { js[k].input_folder : k \in 1..Len(js) }

\* C3: when every renderer invocation exits non-zero (and no cancellation is
\* requested), every job is in failed_jobs of execute_jobs, a following
\* retry_failed_jobs with max_retries = K launches the renderer at most K more
\* times per job, and it ends with all those jobs still in failed_jobs.
C3_RetryBound ==
    (renderer = "always_nonzero" /\ ~interrupted) =>
        /\ (cpc = "first" /\ mainpc = "returned")
               => Folders(ret.failed_jobs) = Folders(all_jobs)
        /\ retry_arg # << >>
               => \A j \in 1..MaxJobs : retry_launches[j] <= retry_arg[1]
        /\ cpc = "done"
               => Folders(all_results.failed_jobs) = Folders(all_jobs)

Launched(c) == { i \in DOMAIN c : c[i] # << >> }

\* C4 as stated: after the first cancellation request no renderer is launched
\* for a job that had not been launched yet, and execute_jobs returns only once
\* no renderer of the batch is running.
C4_NoLaunchAfterCancel ==
    [][ /\ (Executing /\ shutdown_requested) => Launched(cmd') \subseteq Launched(cmd)
        /\ mainpc' = "returned" => InFlight' = {} ]_vars

\* C4 amended: after the first cancellation request a renderer is launched only
\* for a job whose task had passed the shutdown check of task_wrapper before
\* the request; execute_jobs returns only once no renderer is running.
C4_NoDispatchAfterCancel ==
    [][ /\ (Executing /\ shutdown_requested)
            => (Launched(cmd') \ Launched(cmd)) \subseteq at_cancel
        /\ mainpc' = "returned" => InFlight' = {} ]_vars

ShutdownResult(i) ==
    [ raised |-> FALSE, result |-> JobResult(jobs[i], FALSE, "Shutdown requested") ]

\* after the request one renderer is still in flight and another job was refused
\* at the shutdown check without being launched
C4_Witness ==
    /\ mainpc = "collect"
    /\ shutdown_requested
    /\ InFlight # {}
    /\ \E i \in Tasks : cmd[i] = << >> /\ fres[i] = ShutdownResult(i)

\* C5: when cancellation is requested, a job whose renderer had not been
\* launched (whose task had not even passed the shutdown check) is abandoned:
\* it is not in results, not counted in failed and not in failed_jobs.
C5_UnlaunchedAbandoned ==
    shutdown_requested =>
        \A i \in Tasks \ at_cancel :
            /\ i \notin collected
            /\ jobs[i].input_folder \notin Folders(results.failed_jobs)

\* C6: a second cancellation request ends the run at once: the run is never
\* found waiting for a renderer subprocess that is still in flight.
C6_ForceQuitDoesNotWait ==
    mainpc = "unwinding" => InFlight = {}

GpuInFlight == { i \in InFlight : cmd[i][1].opencl = "TRUE" }

\* C9: the in-flight renderers launched with opencl=TRUE are never more than
\* max_gpu_workers, and a renderer is launched with opencl=TRUE exactly when
\* the profile it is bound to is of kind gpu.
C9_GpuBound ==
    /\ Cardinality(GpuInFlight) <= cfg.gpu_instances
    /\ \A i \in InFlight : (cmd[i][1].opencl = "TRUE") <=> (Profile(i).type = "gpu")

\* a gpu-bound and a cpu-bound renderer are in flight together, the gpu cap being 1
C9_Witness ==
    /\ cfg.gpu_instances = 1
    /\ Cardinality(GpuInFlight) = 1
    /\ \E i \in InFlight : Profile(i).type = "cpu" /\ cmd[i][1].opencl = "FALSE"

\* C10: when no profile is generated for a non-empty job list, execute_jobs
\* returns at once with failed = len(jobs) and completed = 0; no job is
\* submitted, no renderer launched and no sandbox directory created.
C10_NoProfilesFailsAll ==
    (mainpc # "idle" /\ jobs # << >> /\ NoProfiles(profiles)) =>
        /\ mainpc = "returned"
        /\ ret.failed = Len(jobs)
        /\ ret.completed = 0
        /\ \A i \in Tasks : fut[i] = "unsubmitted" /\ cmd[i] = << >>
        /\ dirs = {}

\* a two-job batch returned through the no-profile path
C10_Witness ==
    /\ mainpc = "returned"
    /\ Len(jobs) = 2
    /\ NoProfiles(profiles)
    /\ ret.failed = 2
    /\ Len(ret.failed_jobs) = 2

(***************************************************************************)
(* Properties of the BatchResult returned by execute_jobs.                 *)
(***************************************************************************)
Successes(rs) == Cardinality({ k \in 1..Len(rs) : rs[k].success })

\* C11: on every return path of execute_jobs (empty list, no profile, normal
\* completion, return after cancellation) completed + failed = len(results),
\* completed being the number of successful JobResults in results and failed
\* the number of unsuccessful ones.
C11_CountsMatchResults ==
    mainpc = "returned" =>
        /\ ret.completed + ret.failed = Len(ret.results)
        /\ ret.completed = Successes(ret.results)
        /\ ret.failed = Len(ret.results) - Successes(ret.results)

\* C12: on every return path of execute_jobs each entry of failed_jobs is the
\* input Job record of a failed job, with input_folder, output_template and
\* file_count unchanged.
C12_FailedJobsAreInputJobs ==
    mainpc = "returned" =>
        \A k \in 1..Len(ret.failed_jobs) :
            \E i \in 1..Len(jobs) :
                /\ DOMAIN ret.failed_jobs[k] = DOMAIN jobs[i]
                /\ ret.failed_jobs[k] = jobs[i]

\* the file_count of the jobs whose result was recorded as a success
CompletedFiles ==
    SumSeq([ i \in 1..Len(jobs) |->
               IF i \in collected /\ FutureResult(i).success
               THEN jobs[i].file_count ELSE 0 ])

\* C13: files_completed of the returned BatchResult is the sum of file_count
\* over the jobs counted as completed; failed jobs contribute nothing.
C13_FilesOfCompletedOnly ==
    mainpc = "returned" => ret.files_completed = CompletedFiles

\* the task of job i went past the shutdown check into _run_conversion
Attempted(i) == fres[i] # NoResult /\ fres[i] # ShutdownResult(i)

ResultsFor(rs, job) == { k \in 1..Len(rs) : rs[k].folder = job.input_folder }

\* C14: with at least one profile and no cancellation, whatever the outcomes of
\* the jobs (exit 0, non-zero exit, launch exception, sandbox-directory creation
\* error), execute_jobs is not left by an exception, and when it returns every
\* job was attempted and results holds exactly one JobResult per job.
C14_EveryJobHasOneResult ==
    (jobs # << >> /\ ~NoProfiles(profiles) /\ ~interrupted) =>
        /\ mainpc \notin { "unwinding", "exited" }
        /\ mainpc = "returned" =>
             /\ Len(ret.results) = Len(jobs)
             /\ \A i \in Tasks :
                  /\ fut[i] = "done"
                  /\ Attempted(i)
                  /\ Cardinality(ResultsFor(ret.results, jobs[i])) = 1

\* a two-job batch returned with two results although os.makedirs raised for
\* one job and the renderer of the other exited non-zero
C14_Witness ==
    /\ mainpc = "returned"
    /\ ~interrupted
    /\ Len(jobs) = 2
    /\ Len(ret.results) = 2
    /\ \E i, k \in Tasks :
         /\ fres[i].raised
         /\ proc[k] = << 1 >>

(***************************************************************************)
(* Properties of one job run (_run_conversion) and of its sandbox.         *)
(***************************************************************************)
\* _run_conversion returned for job i
RunReturned(i) == Attempted(i) /\ ~fres[i].raised

\* subprocess.run raised for job i: the run returned without a CompletedProcess
LaunchRaised(i) == RunReturned(i) /\ proc[i] = << >>

\* C15: the JobResult of a run has success = true exactly when the renderer
\* was launched and exited with code 0; a non-zero exit gives success = false
\* and an error text; a launch exception gives success = false, the exception
\* text as error and no failed files.
C15_SuccessIffExitZero ==
    \A i \in Tasks : RunReturned(i) =>
        LET r == fres[i].result
        IN  /\ r.success <=> (cmd[i] # << >> /\ proc[i] = << 0 >>)
            /\ (proc[i] # << >> /\ proc[i] # << 0 >>)
                   => (~r.success /\ r.error \notin { "None", "" })
            /\ LaunchRaised(i)
                   => (~r.success /\ r.error = "launch" /\ r.failed_files = << >>)

\* one run ended by a launch exception and another by exit code 1 with the
\* text "Exit code: 1"
C15_Witness ==
    \E i, k \in Tasks :
        /\ LaunchRaised(i)
        /\ proc[k] = << 1 >>
        /\ RunReturned(k)
        /\ fres[k].result.error = ExitCodeText(1)

\* the sandbox directory of the run of a task that holds a profile
Sandbox(i) == ConfigDir(Profile(i))

SandboxLifecycle ==
    /\ \A i \in InFlight : Sandbox(i) \in dirs
    /\ \A i \in Tasks :
         (fut[i] = "finishing" /\ RunReturned(i)) => Sandbox(i) \notin dirs
    /\ \A i \in Tasks : fut[i] = "checked" => ENABLED Launch(i)

C17_NoSharedSandbox ==
    /\ \A a, b \in InFlight : a # b => Sandbox(a) # Sandbox(b)
    /\ \A i \in InFlight : Sandbox(i) \in dirs

\* one run has returned and removed its directory while another job is in
\* flight in its own directory, which still exists
C17_Witness ==
    \E i \in InFlight, k \in Tasks :
        /\ fut[k] \in { "finishing", "done" }
        /\ cmd[k] # << >>
        /\ cmd[k][1].configdir # Sandbox(i)
        /\ cmd[k][1].configdir \notin dirs
        /\ Sandbox(i) \in dirs

(***************************************************************************)
(* Properties of retry_failed_jobs, checked under SpecRetry.               *)
(***************************************************************************)
\* C18: retry_failed_jobs(failed_jobs, max_retries) calls execute_jobs at most
\* max_retries times, for every max_retries >= 0 the caller passes, and makes
\* no call once the remaining-failed list is empty.
C18_AtMostMaxRetriesCalls ==
    retry_arg # << >> =>
        /\ rounds <= retry_arg[1]
        /\ cpc = "retry_call" => remaining # << >>

(***************************************************************************)
(* Ordering of release, progress update and the next acquire.              *)
(***************************************************************************)
\* task i takes a profile off the queue in this step
Acquires(i) == held[i] = << >> /\ held'[i] # << >>

\* the task that used, before this step, the profile task i takes in it
Predecessor(i) == last_user[held'[i][1].worker_id]

ResultFileCount(r) ==
    LET i == CHOOSE i \in 1..Len(jobs) : jobs[i].input_folder = r.folder
    IN  jobs[i].file_count

AdvanceOwed(rs) == SumSeq([ k \in 1..Len(rs) |-> ResultFileCount(rs[k]) ])

\* C20: during execute_jobs the progress callback, when provided, is invoked
\* exactly once per JobResult appended to results, with that JobResult, and
\* the progress indicator is advanced by the job's file_count, so that at
\* return the total advance is the sum of file_count over the jobs in results.
C20_CallbackOncePerResult ==
    /\ progress_callback => callback_log = results.results
    /\ ~progress_callback => callback_log = << >>
    /\ pbar_n = AdvanceOwed(results.results)
    /\ (mainpc = "returned" /\ ret.results # << >>)
           => pbar_n = AdvanceOwed(ret.results)

\* a two-job batch returned: the callback received both JobResults, one of them
\* a failure with a failed file, and the bar advanced by the two file counts
C20_Witness ==
    /\ mainpc = "returned"
    /\ progress_callback
    /\ Len(ret.results) = 2
    /\ callback_log = ret.results
    /\ \E k \in 1..2 : callback_log[k].failed_files # << >>
    /\ pbar_n = FileCount(1) + FileCount(2)

(***************************************************************************)
(* The pure functions on their own: the arguments are drawn from bounded   *)
(* sets, one action per function evaluates it and stores the result.       *)
(***************************************************************************)
\* the host and configuration of the documented example: 16 threads and the
\* DEFAULTS of config.py
ExampleCfg ==
    [ total_threads |-> 16, max_workers |-> 3, gpu_instances |-> 2,
      cpu_threads_gpu_instance |-> 4, cpu_threads_cpu_instance |-> 4,
      reserved_core_count |-> 4, max_retry |-> 5 ]

MaskArgs ==
    { [ fn |-> "get_affinity_mask", start_thread |-> a, end_thread |-> b ] :
        a \in 0..(MaskThreads - 1), b \in 0..(MaskThreads - 1) }

\* execute_jobs' call of line 237 on the example host, for 0 to 5 waiting jobs
ExampleArgs ==
    { [ fn |-> "generate_worker_profiles", job_count |-> n ] : n \in 0..5 }

(***************************************************************************)
(* get_output_template (utils.py 45-72).  A path and a template are        *)
(* sequences of pieces of text.                                            *)
(***************************************************************************)
PathPieces == { "G:", "/", "jpeg", "\\" }

RECURSIVE SeqsUpTo(_, _)
SeqsUpTo(S, n) ==
    IF n = 0 THEN { << >> }
    ELSE LET shorter == SeqsUpTo(S, n - 1)
         IN  shorter \cup { Append(q, x) : q \in shorter, x \in S }

Patterns == { "datetime_prefix", "datetime_suffix", "plain_dsc", "unknown" }

TemplateArgs ==
    { [ fn |-> "get_output_template", pattern |-> pt, base_outpath |-> b ] :
        pt \in Patterns, b \in SeqsUpTo(PathPieces, MaxPathLen) }

\* base_outpath.rstrip('/')
RECURSIVE RStripSlash(_)
RStripSlash(path) ==
    IF path # << >> /\ path[Len(path)] = "/"
    THEN RStripSlash(SubSeq(path, 1, Len(path) - 1))
    ELSE path

DateTokens == << "$(EXIF.YEAR)", "-", "$(EXIF.MONTH)", "-", "$(EXIF.DAY)" >>

TimeTokens == << "$(EXIF.HOUR)", "-", "$(EXIF.MINUTE)", "-", "$(EXIF.SECOND)" >>

FileNameTokens == << "$(FILE.NAME)", ".jpg" >>

\* lines 61 and 65: '{base}/<date>/$(FILE.NAME).jpg'
DatedFolderTemplate(base) ==
    << "'" >> \o base \o << "/" >> \o DateTokens \o << "/" >>
        \o FileNameTokens \o << "'" >>

\* lines 69 and 72: '{base}/<date>/<date>_<time>_$(FILE.NAME).jpg'
DatedNameTemplate(base) ==
    << "'" >> \o base \o << "/" >> \o DateTokens \o << "/" >>
        \o DateTokens \o << "_" >> \o TimeTokens \o << "_" >>
        \o FileNameTokens \o << "'" >>

\* variant: the datetime_suffix branch adds the date and time to the name
SuffixTemplate_Dated(base) == DatedNameTemplate(base)

\* line 65
SuffixTemplate(base) == DatedFolderTemplate(base)

get_output_template(pattern, base_outpath) ==
    LET base == RStripSlash(base_outpath)
    IN  IF pattern = "datetime_prefix" THEN DatedFolderTemplate(base)
        ELSE IF pattern = "datetime_suffix" THEN SuffixTemplate(base)
        ELSE IF pattern = "plain_dsc" THEN DatedNameTemplate(base)
        ELSE DatedNameTemplate(base)

(***************************************************************************)
(* detect_filename_pattern (utils.py 9-42).  A file name is a sequence of  *)
(* characters.                                                             *)
(***************************************************************************)
\* (\d{4})-(\d{2})-(\d{2})_(\d{2})-(\d{2})-(\d{2})
MatchDatetime(name, P) ==
    LET year   == MatchCount(name, P, Digits, 4)
        month  == MatchCount(name, MatchChar(name, year, { "-" }), Digits, 2)
        day    == MatchCount(name, MatchChar(name, month, { "-" }), Digits, 2)
        hour   == MatchCount(name, MatchChar(name, day, { "_" }), Digits, 2)
        minute == MatchCount(name, MatchChar(name, hour, { "-" }), Digits, 2)
    IN  MatchCount(name, MatchChar(name, minute, { "-" }), Digits, 2)

\* variant: the stem needs no digits
MatchStem_LettersOnly(name, P) == MatchPlus(name, P, AsciiLetters)

\* ([A-Za-z]+\d+)
MatchStem(name, P) == MatchPlus(name, MatchPlus(name, P, AsciiLetters), Digits)

\* \.(\w+)
MatchExtension(name, P) ==
    MatchPlus(name, MatchChar(name, P, { "." }), WordChars)

\* $ : the end of the text, or just before a line break that ends it
AtEnd(name, P) ==
    \/ Len(name) + 1 \in P
    \/ Len(name) \in P /\ name[Len(name)] = "\n"

\* ^ : match() starts at the first character
AtStart == { 1 }

DATETIME_PREFIX_PATTERN(name) ==
    AtEnd(name,
          MatchExtension(name,
              MatchStem(name,
                  MatchChar(name, MatchDatetime(name, AtStart), { "_" }))))

PLAIN_DSC_PATTERN(name) ==
    AtEnd(name, MatchExtension(name, MatchStem(name, AtStart)))

DATETIME_SUFFIX_PATTERN(name) ==
    AtEnd(name,
          MatchExtension(name,
              MatchDatetime(name,
                  MatchChar(name, MatchStem(name, AtStart), { "_" }))))

detect_filename_pattern(filename) ==
    IF DATETIME_PREFIX_PATTERN(filename) THEN "datetime_prefix"
    ELSE IF DATETIME_SUFFIX_PATTERN(filename) THEN "datetime_suffix"
    ELSE IF PLAIN_DSC_PATTERN(filename) THEN "plain_dsc"
    ELSE "unknown"

\* the file names explored: every concatenation of one part of each kind
DatetimeText ==
    << "2", "0", "2", "5", "-", "1", "2", "-", "2", "5", "_", "1", "6", "-",
       "3", "4", "-", "3", "2" >>

ShortDatetimeText ==
    << "2", "0", "2", "5", "-", "1", "2", "-", "2", "5", "_", "1", "6", "-",
       "3", "4", "-", "3" >>

LeadingParts ==
    { << >>, DatetimeText \o << "_" >>, DatetimeText,
      ShortDatetimeText \o << "_" >> }

LetterParts ==
    { << >>, << "D", "S", "C" >>,
      << "r", "a", "n", "d", "o", "m", "_", "p", "h", "o", "t", "o" >> }

DigitParts == { << >>, << "0", "7", "5", "1", "4" >>, << "1" >> }

TrailingParts ==
    { << >>, << "_" >> \o DatetimeText, << "_" >> \o ShortDatetimeText,
      DatetimeText }

DotParts == { << >>, << "." >> }

ExtensionParts ==
    { << >>, << "A", "R", "W" >>, << "a", "r", "w" >>, << "j", "p", "g" >>,
      << "A", "R", "W", ".", "b", "a", "k" >>, << "c", "r", "2" >> }

FileNames ==
    { a \o b \o c \o d \o e \o f :
        a \in LeadingParts, b \in LetterParts, c \in DigitParts,
        d \in TrailingParts, e \in DotParts, f \in ExtensionParts }

DetectArgs ==
    { [ fn |-> "detect_filename_pattern", filename |-> n ] : n \in FileNames }

\* pout becomes << v >>, the value the function returned
Returns(v) ==
    /\ cpc = "function"
    /\ pout = << >>
    /\ pout' = << v >>
    /\ UNCHANGED << cfg, renderer, quiet, filesystem, all_jobs, cpc, mainpc,
                    shutdown_requested, jobs, profiles, profile_queue, fut, held,
                    fres, cmd, proc, collected, results, files_completed,
                    progressVars, progress_callback, ret, dirs, callerVars,
                    histVars, at_cancel, last_user, pin >>

CallMask ==
    /\ pin.fn = "get_affinity_mask"
    /\ Returns(get_affinity_mask(pin.start_thread, pin.end_thread))

\* line 237: generate_worker_profiles(self.max_workers, self.gpu_instances, n)
CallGenerate ==
    /\ pin.fn = "generate_worker_profiles"
    /\ Returns(generate_worker_profiles(cfg, cfg.max_workers, cfg.gpu_instances,
                                         pin.job_count))

CallTemplate ==
    /\ pin.fn = "get_output_template"
    /\ Returns(get_output_template(pin.pattern, pin.base_outpath))

\* the arguments explored; one set per function is added to this union
ExtractArgs ==
    { [ fn |-> "_extract_failed_files", stderr |-> t ] : t \in StderrTexts }

CallExtract ==
    /\ pin.fn = "_extract_failed_files"
    /\ Returns(extract_failed_files(pin.stderr))

CallDetect ==
    /\ pin.fn = "detect_filename_pattern"
    /\ Returns(detect_filename_pattern(pin.filename))

FunctionArgs ==
    MaskArgs \cup ExampleArgs \cup TemplateArgs \cup DetectArgs \cup ExtractArgs

InitFunctions ==
    /\ cfg = ExampleCfg
    /\ pin \in FunctionArgs
    /\ pout = << >>
    /\ renderer = "arbitrary"
    /\ quiet = FALSE
    /\ filesystem = "reliable"
    /\ progress_callback = FALSE
    /\ all_jobs = << >>
    /\ cpc = "function"
    /\ mainpc = "idle"
    /\ shutdown_requested = FALSE
    /\ jobs = << >>
    /\ profiles = << >>
    /\ profile_queue = << >>
    /\ fut = << >>
    /\ held = << >>
    /\ fres = << >>
    /\ cmd = << >>
    /\ proc = << >>
    /\ pbar_n = 0
    /\ callback_log = << >>
    /\ last_user = << >>
    /\ collected = {}
    /\ results = EmptyResults
    /\ files_completed = 0
    /\ ret = EmptyResults
    /\ dirs = {}
    /\ retry_arg = << >>
    /\ failed_jobs = << >>
    /\ max_retries = 0
    /\ attempt = 0
    /\ remaining = << >>
    /\ all_results = [ completed |-> 0, failed |-> 0, failed_jobs |-> << >>,
                       results |-> << >> ]
    /\ rounds = 0
    /\ retry_launches = [ j \in 1..MaxJobs |-> 0 ]
    /\ at_cancel = {}
    /\ interrupted = FALSE

NextFunctions ==
    \/ CallMask
    \/ CallGenerate
    \/ CallTemplate
    \/ CallDetect
    \/ CallExtract

SpecFunctions == InitFunctions /\ [][NextFunctions]_vars

\* this function was called and has returned
Called(fn) == cpc = "function" /\ pin.fn = fn /\ Generated

HexValue(d) == CHOOSE v \in 0..15 : HexDigit(v) = d

RECURSIVE ParseHex(_)
ParseHex(ds) ==
    IF ds = << >> THEN 0
    ELSE 16 * ParseHex(SubSeq(ds, 1, Len(ds) - 1)) + HexValue(ds[Len(ds)])

\* the positions of the bits set in n
SetBits(n) == { i \in 0..MaskThreads : (n \div Pow2(i)) % 2 = 1 }

\* C21: for 0 <= start <= end < N the hexadecimal text returned by
\* get_affinity_mask(start, end) encodes a number whose set bits are exactly
\* the positions start..end; (8, 11) gives F00 and (12, 15) gives F000.
C21_MaskBitsExact ==
    (Called("get_affinity_mask") /\ pin.start_thread <= pin.end_thread) =>
        /\ SetBits(ParseHex(Returned)) = pin.start_thread..pin.end_thread
        /\ (pin.start_thread = 8 /\ pin.end_thread = 11)
               => Returned = << "F", "0", "0" >>
        /\ (pin.start_thread = 12 /\ pin.end_thread = 15)
               => Returned = << "F", "0", "0", "0" >>

\* the mask of threads 8..11 was computed
C21_Witness ==
    /\ Called("get_affinity_mask")
    /\ pin.start_thread = 8 /\ pin.end_thread = 11
    /\ Returned = << "F", "0", "0" >>
    /\ SetBits(ParseHex(Returned)) = 8..11

ExampleProfile(id, kind, first, last, mask) ==
    [ worker_id |-> id, type |-> kind, start_thread |-> first,
      end_thread |-> last, hex_mask |-> mask, use_gpu |-> kind = "gpu" ]

\* C22: with 16 threads, 4 reserved, max_workers 3, max_gpu_workers 2, both
\* widths 4 and 5 jobs, generate_worker_profiles returns exactly three
\* profiles, gpu on 12-15, gpu on 8-11 and cpu on 4-7 in this order, which
\* use the 12 allocatable threads.
C22_DocumentedExample ==
    (Called("generate_worker_profiles") /\ pin.job_count = 5) =>
        /\ Returned = << ExampleProfile(1, "gpu", 12, 15, << "F", "0", "0", "0" >>),
                         ExampleProfile(2, "gpu", 8, 11, << "F", "0", "0" >>),
                         ExampleProfile(3, "cpu", 4, 7, << "F", "0" >>) >>
        /\ UsedThreads(Returned) = 4..15
        /\ Cardinality(UsedThreads(Returned))
               = cfg.total_threads - cfg.reserved_core_count

\* the example was evaluated and returned three profiles
C22_Witness ==
    /\ Called("generate_worker_profiles")
    /\ cfg.total_threads = 16 /\ cfg.reserved_core_count = 4
    /\ cfg.max_workers = 3 /\ cfg.gpu_instances = 2
    /\ pin.job_count = 5
    /\ Len(Returned) = 3

\* C23: for job_count = 0 generate_worker_profiles returns an empty list, and
\* execute_jobs([]) returns a BatchResult with completed, failed and
\* files_completed zero and results and failed_jobs empty, no renderer having
\* been launched.
C23_NoJobsNothingToDo ==
    /\ (cpc = "generator" /\ Generated /\ pin.job_count = 0) => Returned = << >>
    /\ (mainpc = "returned" /\ jobs = << >>) =>
           /\ ret = EmptyResults
           /\ Launched(cmd) = {}

Contains(q, x) == \E k \in 1..Len(q) : q[k] = x

StartsWith(q, prefix) ==
    Len(prefix) <= Len(q) /\ SubSeq(q, 1, Len(prefix)) = prefix

EndsWith(q, suffix) ==
    Len(suffix) <= Len(q)
        /\ SubSeq(q, Len(q) - Len(suffix) + 1, Len(q)) = suffix

\* b is path without its trailing slashes
IsStripped(b, path) ==
    /\ StartsWith(path, b)
    /\ b = << >> \/ b[Len(b)] # "/"
    /\ \A k \in (Len(b) + 1)..Len(path) : path[k] = "/"

\* the quoted template t is the folder text followed by the file-name text
SplitsInto(t, folder, name) == t = << "'" >> \o folder \o name \o << "'" >>

\* C24: for each of the four patterns and every base path get_output_template
\* returns a template under the base path and its date directory, with a name
\* ending in $(FILE.NAME).jpg; the date and time tokens are in the name exactly
\* for plain_dsc and unknown; no backslash appears unless the base has one.
C24_TemplateShape ==
    Called("get_output_template") =>
        \E b \in SeqsUpTo(PathPieces, Len(pin.base_outpath)) :
            /\ IsStripped(b, pin.base_outpath)
            /\ \E name \in { SubSeq(Returned, k, Len(Returned) - 1) :
                               k \in 1..Len(Returned) } :
                 /\ SplitsInto(Returned,
                               b \o << "/" >> \o DateTokens \o << "/" >>, name)
                 /\ EndsWith(name, << "$(FILE.NAME)", ".jpg" >>)
                 /\ ~Contains(name, "/")
                 /\ StartsWith(name, DateTokens \o << "_" >> \o TimeTokens)
                        <=> pin.pattern \in { "plain_dsc", "unknown" }
                 /\ (Contains(name, "$(EXIF.YEAR)") \/ Contains(name, "$(EXIF.HOUR)"))
                        <=> pin.pattern \in { "plain_dsc", "unknown" }
            /\ ~Contains(pin.base_outpath, "\\") => ~Contains(Returned, "\\")

\* the template of a datetime_suffix folder under G:/jpeg/ was computed
C24_Witness ==
    /\ Called("get_output_template")
    /\ pin.pattern = "datetime_suffix"
    /\ pin.base_outpath = << "G:", "/", "jpeg" >>
    /\ Returned = << "'", "G:", "/", "jpeg", "/", "$(EXIF.YEAR)", "-",
                     "$(EXIF.MONTH)", "-", "$(EXIF.DAY)", "/",
                     "$(FILE.NAME)", ".jpg", "'" >>

AllIn(q, class) == \A k \in 1..Len(q) : q[k] \in class

\* yyyy-mm-dd_hh-mm-ss
IsDatetimeText(q) ==
    /\ Len(q) = 19
    /\ \A k \in 1..19 :
         IF k \in { 5, 8, 14, 17 } THEN q[k] = "-"
         ELSE IF k = 11 THEN q[k] = "_"
         ELSE q[k] \in Digits

\* <letters><digits>
IsLettersDigits(q) ==
    \E k \in 1..(Len(q) - 1) :
        /\ AllIn(SubSeq(q, 1, k), AsciiLetters)
        /\ AllIn(SubSeq(q, k + 1, Len(q)), Digits)

\* the text before the dot at d, and whether an extension follows that dot
BeforeDot(name, d) == SubSeq(name, 1, d - 1)

ExtensionAt(name, d) ==
    /\ name[d] = "."
    /\ d < Len(name)
    /\ AllIn(SubSeq(name, d + 1, Len(name)), WordChars)

PrefixForm(name) ==
    \E d \in 23..Len(name) :
        /\ ExtensionAt(name, d)
        /\ IsDatetimeText(SubSeq(name, 1, 19))
        /\ name[20] = "_"
        /\ IsLettersDigits(SubSeq(name, 21, d - 1))

SuffixForm(name) ==
    \E d \in 23..Len(name) :
        /\ ExtensionAt(name, d)
        /\ IsLettersDigits(SubSeq(name, 1, d - 21))
        /\ name[d - 20] = "_"
        /\ IsDatetimeText(SubSeq(name, d - 19, d - 1))

PlainForm(name) ==
    \E d \in 3..Len(name) :
        /\ ExtensionAt(name, d)
        /\ IsLettersDigits(BeforeDot(name, d))

FormsOf(name) ==
    { f \in { "datetime_prefix", "datetime_suffix", "plain_dsc" } :
        \/ f = "datetime_prefix" /\ PrefixForm(name)
        \/ f = "datetime_suffix" /\ SuffixForm(name)
        \/ f = "plain_dsc" /\ PlainForm(name) }

\* the name with the letters after its last dot in the other case
WithExtensionCaseChanged(name) ==
    [ k \in 1..Len(name) |->
        IF \E d \in 1..(k - 1) : name[d] = "."
           /\ \A j \in k..Len(name) : name[j] # "."
        THEN OtherCase(name[k])
        ELSE name[k] ]

\* C25: detect_filename_pattern returns one of the four labels for every
\* name: the label of the form the name has (date-time prefix, date-time
\* suffix, plain letters and digits), unknown when it has none; no name has
\* two forms, and changing the letter case of the extension keeps the label.
C25_LabelIsTheForm ==
    Called("detect_filename_pattern") =>
        /\ Returned \in Patterns
        /\ Cardinality(FormsOf(pin.filename)) <= 1
        /\ Returned # "unknown" <=> FormsOf(pin.filename) = { Returned }
        /\ Returned = "unknown" <=> FormsOf(pin.filename) = {}
        /\ detect_filename_pattern(WithExtensionCaseChanged(pin.filename)) = Returned

\* the name DSC07514_2025-12-25_16-34-32.ARW was labelled datetime_suffix,
\* and so is the same name ending in .arw
C25_Witness ==
    /\ Called("detect_filename_pattern")
    /\ pin.filename = << "D", "S", "C", "0", "7", "5", "1", "4", "_" >>
                          \o DatetimeText \o << ".", "A", "R", "W" >>
    /\ Returned = "datetime_suffix"
    /\ WithExtensionCaseChanged(pin.filename)
           = << "D", "S", "C", "0", "7", "5", "1", "4", "_" >>
                 \o DatetimeText \o << ".", "a", "r", "w" >>

\* C26: when execute_jobs returns, every job for which a renderer was launched
\* has exactly one JobResult in results, also when a cancellation request
\* arrived while that job was in flight.
C26_LaunchedJobsHaveOneResult ==
    mainpc = "returned" =>
        \A i \in Launched(cmd) :
            Cardinality(ResultsFor(ret.results, jobs[i])) = 1

\* how often the profile is in the pool, and how many jobs hold it
InPool(profile) ==
    Cardinality({ k \in 1..Len(profile_queue) : profile_queue[k] = profile })

HeldBy(profile) == Cardinality({ i \in Tasks : held[i] = << profile >> })

\* C27: in every state of execute_jobs each generated profile is in the pool
\* once or held by one job, never both and never neither; a job whose task
\* has ended, whatever its outcome, holds no profile; so when execute_jobs
\* returns the pool holds every generated profile exactly once.
C27_ProfilesConserved ==
    /\ \A k \in 1..Len(profiles) :
         InPool(profiles[k]) + HeldBy(profiles[k]) = 1
    /\ Len(profile_queue) + Cardinality(Holders) = Len(profiles)
    /\ \A i \in Tasks : fut[i] = "done" => held[i] = << >>
    /\ mainpc = "returned" =>
           \A k \in 1..Len(profiles) : InPool(profiles[k]) = 1

\* execute_jobs returned with both of its two profiles back in the pool after
\* one task was left by an exception and another was refused at the shutdown
\* check
C27_Witness ==
    /\ mainpc = "returned"
    /\ Len(profiles) = 2
    /\ \A k \in 1..2 : InPool(profiles[k]) = 1
    /\ \E i, k \in Tasks :
         /\ fres[i].raised
         /\ fres[k] = ShutdownResult(k)

\* the folders with a success among the results rs
SucceededFolders(rs) == { rs[k].folder : k \in { n \in 1..Len(rs) : rs[n].success } }

\* C28: in retry_failed_jobs the input of a round is the failed_jobs returned
\* by the round before it, so a job that succeeded in a round is in the input
\* of no later round; completed starts at 0, grows by each round's completed
\* count and is returned unchanged.
C28_NextRoundIsFailedJobs ==
    [][ /\ (cpc = "first" /\ cpc' = "retry") => all_results'.completed = 0
        /\ (cpc = "retry" /\ cpc' = "retry_call") =>
               /\ jobs' = ret.failed_jobs
               /\ Folders(jobs') \cap SucceededFolders(all_results.results) = {}
        /\ (cpc = "retry_call" /\ cpc' = "retry") =>
               /\ remaining' = ret.failed_jobs
               /\ Folders(remaining') \cap SucceededFolders(all_results'.results) = {}
               /\ all_results'.completed = all_results.completed + ret.completed
        /\ (cpc = "retry" /\ cpc' = "done") =>
               /\ all_results'.completed = all_results.completed
               /\ all_results'.completed = Successes(all_results'.results) ]_vars

\* a second retry round runs only the job that failed in the first round,
\* whose other job succeeded
C28_Witness ==
    /\ cpc = "retry_call"
    /\ rounds = 2
    /\ Len(jobs) = 1
    /\ all_results.completed = 1
    /\ SucceededFolders(all_results.results) # {}
    /\ Launched(cmd) # {}

\* worker_ids are 1..n in list order
NumberedInOrder(ps) == \A k \in 1..Len(ps) : ps[k].worker_id = k

\* no cpu profile comes before a gpu profile
GpuFirst(ps) ==
    \A j, k \in 1..Len(ps) : (j < k /\ ps[j].type = "cpu") => ps[k].type = "cpu"

\* every later range lies strictly below every earlier one
Descending(ps) ==
    \A j, k \in 1..Len(ps) : j < k => ps[k].end_thread < ps[j].start_thread

\* C29 as stated: for every configuration the returned profiles carry
\* worker_ids 1..n in list order, gpu profiles precede cpu profiles, and each
\* later thread range lies strictly below every earlier one.
C29_OrderedDescending_AnyWidth ==
    Generated =>
        (NumberedInOrder(Returned) /\ GpuFirst(Returned) /\ Descending(Returned))

\* C29 amended: the numbering and the gpu-first order for every configuration,
\* the strictly descending ranges for thread widths of at least 1.
C29_OrderedDescending ==
    Generated =>
        /\ NumberedInOrder(Returned)
        /\ GpuFirst(Returned)
        /\ (cfg.cpu_threads_gpu_instance >= 1 /\ cfg.cpu_threads_cpu_instance >= 1)
               => Descending(Returned)

\* the second gpu profile was skipped for lack of threads and the cpu profile
\* after it is worker 2, on the thread below the gpu profile's range
C29_Witness ==
    /\ Generated
    /\ cfg.reserved_core_count = 1
    /\ cfg.cpu_threads_gpu_instance = 2
    /\ cfg.cpu_threads_cpu_instance = 1
    /\ pin = [ max_workers |-> 3, max_gpu |-> 2, job_count |-> 3 ]
    /\ Len(Returned) = 2
    /\ Returned[1].type = "gpu" /\ Returned[1].worker_id = 1
    /\ Returned[2].type = "cpu" /\ Returned[2].worker_id = 2
    /\ Returned[1].start_thread = 2
    /\ Returned[2].end_thread = 1

\* the extensions the specification lists for RAW files
RawExtensions ==
    { << "a", "r", "w" >>,
      << "c", "r", "2" >>,
      << "c", "r", "3" >>,
      << "n", "e", "f" >>,
      << "d", "n", "g" >>,
      << "o", "r", "f" >>,
      << "r", "w", "2" >>,
      << "r", "a", "f" >>,
      << "p", "e", "f" >> }

LowerOf(c) == IF c \in Chars(UpperCase) THEN OtherCase(c) ELSE c

LowerText(q) == [ k \in 1..Len(q) |-> LowerOf(q[k]) ]

\* characters a..b of the line are a token: a longest run without a space
IsToken(line, a, b) ==
    /\ a <= b
    /\ \A k \in a..b : line[k] # " "
    /\ a = 1 \/ line[a - 1] = " "
    /\ b = Len(line) \/ line[b + 1] = " "

\* the name ends at q: the token ends there, or goes on with punctuation
EndsName(line, q, b) == q = b \/ line[q + 1] \notin (WordChars \cup { "." })

\* characters a..q of the line are a path with a RAW extension, in any letter
\* case, at the start of a token
IsRawPath(line, a, q) ==
    /\ a + 4 <= q
    /\ \E b \in q..Len(line) : IsToken(line, a, b) /\ EndsName(line, q, b)
    /\ line[q - 3] = "."
    /\ LowerText(SubSeq(line, q - 2, q)) \in RawExtensions

RawPathTokens(line) ==
    { SubSeq(line, pos[1], pos[2]) :
        pos \in { ps \in (1..Len(line)) \X (1..Len(line)) :
                    IsRawPath(line, ps[1], ps[2]) } }

RawPathsOf(lines) == UNION { RawPathTokens(lines[k]) : k \in 1..Len(lines) }

\* C30: failed_files contains every path token of the standard-error text
\* whose extension is one of .arw .cr2 .cr3 .nef .dng .orf .rw2 .raf .pef, in
\* any letter case; it is empty only when the text holds no such token.
C30_EveryRawPathReported ==
    Called("_extract_failed_files") =>
        /\ RawPathsOf(StderrLines(pin.stderr)) \subseteq Chars(Returned)
        /\ Returned = << >> => RawPathsOf(StderrLines(pin.stderr)) = {}

\* C34: for thread widths of at least 1 and reserved_cores >= 0, no returned
\* profile contains a thread index below reserved_cores.
C34_ReservedThreadsUnused ==
    ( /\ Generated
      /\ cfg.cpu_threads_gpu_instance >= 1
      /\ cfg.cpu_threads_cpu_instance >= 1
      /\ cfg.reserved_core_count >= 0 )
        => \A k \in 1..Len(Returned) :
               \A t \in ThreadRange(Returned[k]) : t >= cfg.reserved_core_count

\* with one reserved thread the last profile returned starts at thread 1 and
\* a further requested profile was skipped
C34_Witness ==
    /\ Generated
    /\ cfg.reserved_core_count = 1
    /\ cfg.cpu_threads_gpu_instance = 1
    /\ cfg.cpu_threads_cpu_instance = 2
    /\ pin = [ max_workers |-> 3, max_gpu |-> 1, job_count |-> 3 ]
    /\ Len(Returned) = 2
    /\ Returned[2].start_thread = 1
    /\ Returned[2].end_thread = 2

\* this step enters execute_jobs (cli.py 197 or executor.py 350)
EntersExecuteJobs == cpc # cpc' /\ cpc' \in { "first", "retry_call" }

\* C32: every execute_jobs call starts with the shutdown flag cleared, so a
\* job is refused at the shutdown check only after a request made during the
\* same call; a request made during an earlier call refuses nothing.
C32_FlagClearedAtEntry ==
    [][ /\ EntersExecuteJobs => ~shutdown_requested'
        /\ \A i \in DOMAIN fres' :
               fres'[i] = [ raised |-> FALSE,
                            result |-> JobResult(jobs'[i], FALSE, "Shutdown requested") ]
                   => shutdown_requested' ]_vars

\* the first retry round was cancelled and refused a job; the second round
\* runs with the flag clear and has launched the renderer for that job
C32_Witness ==
    /\ cpc = "retry_call"
    /\ rounds = 2
    /\ ~shutdown_requested
    /\ \E k \in 1..Len(all_results.results), i \in Launched(cmd) :
         /\ all_results.results[k].error = "Shutdown requested"
         /\ all_results.results[k].folder = jobs[i].input_folder

\* how often the folder is among the successes of rs, and among the jobs js
TimesCompleted(rs, folder) ==
    Cardinality({ n \in 1..Len(rs) : rs[n].success /\ rs[n].folder = folder })

TimesIn(js, folder) ==
    Cardinality({ n \in 1..Len(js) : js[n].input_folder = folder })

\* C33: without cancellation the record returned by retry_failed_jobs has
\* completed + failed = len(failed_jobs given), failed = len(failed_jobs
\* returned), and every input job is once among the completed jobs or once
\* in the returned failed_jobs, never both and never neither.
C33_NoJobLostOrDuplicated ==
    (cpc = "done" /\ ~interrupted) =>
        /\ all_results.completed + all_results.failed = Len(failed_jobs)
        /\ all_results.failed = Len(all_results.failed_jobs)
        /\ all_results.completed = Successes(all_results.results)
        /\ \A k \in 1..Len(failed_jobs) :
             TimesCompleted(all_results.results, failed_jobs[k].input_folder)
               + TimesIn(all_results.failed_jobs, failed_jobs[k].input_folder) = 1
        /\ Folders(all_results.failed_jobs) \subseteq Folders(failed_jobs)

\* two failed jobs were retried without cancellation: one succeeded in the
\* first round, the other in the second
C33_Witness ==
    /\ cpc = "done"
    /\ ~interrupted
    /\ Len(failed_jobs) = 2
    /\ rounds = 2
    /\ all_results.completed = 2
    /\ all_results.failed = 0

\* C31: when every renderer run ends and no cancellation is requested, an
\* execute_jobs call that has at least one profile returns, and every job it
\* submitted is run: none waits forever for a pool thread or a profile.
C31_ExecuteJobsTerminates ==
    /\ (mainpc = "collect") ~> (mainpc = "returned")
    /\ \A i \in 1..MaxJobs :
         (mainpc = "collect" /\ i \in Tasks) ~> (i \in Tasks /\ Attempted(i))

\* two jobs shared one profile: the second one waited for the pool thread and
\* the profile of the first, both were run and execute_jobs returned
C31_Witness ==
    /\ mainpc = "returned"
    /\ ~interrupted
    /\ Len(profiles) = 1
    /\ Len(jobs) = 2
    /\ \A i \in Tasks : Attempted(i) /\ fut[i] = "done"
    /\ last_user = << 2 >>

====
